---- MODULE Spec2Model ----
(***************************************************************************)
(* Model of the I2C general call driver (src/src/lib.rs).                  *)
(*                                                                         *)
(* The driver owns one bus transport (the `i2c` field).  reset(),          *)
(* latch_addr() and call(cmd) each hand one write to the transport and     *)
(* classify the transport's outcome with res_map().  new() wraps a         *)
(* transport, destroy() gives it back.                                     *)
(*                                                                         *)
(* The transport is an external collaborator: what it answers to a write   *)
(* is a nondeterministic choice among Ok(()) and Err(e), e being any fault *)
(* value of the transport's error type.  What the model keeps of the       *)
(* transport is what it was handed: the number of writes it received and   *)
(* the last of them.  Every method takes `&mut self` or `self`, so the     *)
(* operations of one driver never interleave and each is one action.       *)
(*                                                                         *)
(* Options are sequences of length 0 (None) or 1 (Some).                   *)
(***************************************************************************)
EXTENDS Integers, Sequences, FiniteSets

(* ---------------- bounds ---------------- *)

\* number of reset()/latch_addr()/call() invocations explored in one run
MaxOps == 3
\* number of distinct transport handles the caller may start with
NumHandles == 2
\* number of distinct fault values the transport can produce per fault kind
NumTags == 2
\* call() is tried with every command byte up to this one, and with 255
MaxCmd == 6

(* ---------------- constants and value sets ---------------- *)

GENERAL_CALL_ADDR == 0

Command == {"Reset", "LatchAddr"}

\* values of core::num::NonZeroU8, the type of call()'s parameter: the
\* nonzero bytes (explored: the low ones, which include both standard
\* command codes, and the largest)
NonZeroU8_u8 == (0 .. MaxCmd) \cup {255}
NonZeroU8 == (1 .. MaxCmd) \cup {255}

\* kinds a transport fault can report through kind(); NoAcknowledge carries
\* its source (Address, Data or Unknown)
ErrorKind ==
    { "Bus", "ArbitrationLoss", "NoAcknowledge_Address", "NoAcknowledge_Data",
      "NoAcknowledge_Unknown", "Overrun", "Other" }

\* fault values E of the transport: a kind and an opaque remainder
Faults == [kind : ErrorKind, tag : 1 .. NumTags]

\* Result<(), E> produced by the transport's write
Outcomes == {[ok |-> TRUE]} \cup {[ok |-> FALSE, e |-> e] : e \in Faults}

Handles == 1 .. NumHandles

VARIABLES
    transport,    \* the caller's transport handle: <<t>>, or <<>> once moved into the driver
    drv,          \* the driver: <<[i2c |-> t]>>, or <<>> when none exists
    orig,         \* the transport value handed to the latest new()
    lastOp,       \* the latest operation invoked and its argument
    lastOutcome,  \* what the transport answered to that operation's write, if it wrote
    lastRes,      \* what that operation returned to the caller, if it returns a Result
    prevRes,      \* which variant the operation before it returned
    nOps          \* number of reset()/latch_addr()/call() invocations so far

vars == <<transport, drv, orig, lastOp, lastOutcome, lastRes, prevRes, nOps>>

(* ---------------- pure functions ---------------- *)

from_swapped(cmd) ==
    CASE cmd = "Reset" -> 4
      [] cmd = "LatchAddr" -> 6

\* impl From<Command> for u8
from(cmd) ==
    CASE cmd = "Reset" -> 6
      [] cmd = "LatchAddr" -> 4

\* e.kind()
kind(e) == e.kind

\* the three variants of Error<E>
NoAckCall == [err |-> "NoAckCall"]
NoAckCmd == [err |-> "NoAckCmd"]
I2C(e) == [err |-> "I2C", e |-> e]

\* the two acknowledgement arms exchanged
res_map_swapped(res) ==
    IF res.ok
    THEN [ok |-> TRUE]
    ELSE [ok |-> FALSE,
          e |-> CASE kind(res.e) = "NoAcknowledge_Address" -> NoAckCmd
                  [] kind(res.e) = "NoAcknowledge_Data" -> NoAckCall
                  [] OTHER -> I2C(res.e)]

\* the data arm missing
res_map_no_data_arm(res) ==
    IF res.ok
    THEN [ok |-> TRUE]
    ELSE [ok |-> FALSE,
          e |-> CASE kind(res.e) = "NoAcknowledge_Address" -> NoAckCall
                  [] OTHER -> I2C(res.e)]

\* every NoAcknowledge(_) taken for a missing address acknowledgement
res_map_any_nack(res) ==
    IF res.ok
    THEN [ok |-> TRUE]
    ELSE [ok |-> FALSE,
          e |-> CASE kind(res.e) \in {"NoAcknowledge_Address", "NoAcknowledge_Unknown"} -> NoAckCall
                  [] kind(res.e) = "NoAcknowledge_Data" -> NoAckCmd
                  [] OTHER -> I2C(res.e)]

\* faults of kind Other dropped
res_map_swallow(res) ==
    IF res.ok \/ kind(res.e) = "Other"
    THEN [ok |-> TRUE]
    ELSE [ok |-> FALSE,
          e |-> CASE kind(res.e) = "NoAcknowledge_Address" -> NoAckCall
                  [] kind(res.e) = "NoAcknowledge_Data" -> NoAckCmd
                  [] OTHER -> I2C(res.e)]

res_map(res) ==
    IF res.ok
    THEN [ok |-> TRUE]
    ELSE [ok |-> FALSE,
          e |-> CASE kind(res.e) = "NoAcknowledge_Address" -> NoAckCall
                  [] kind(res.e) = "NoAcknowledge_Data" -> NoAckCmd
                  [] OTHER -> I2C(res.e)]

\* the transport after it was handed write(addr, bytes)
I2cWrite(t, addr, bytes) ==
    [t EXCEPT !.nwrites = @ + 1,
              !.last = <<[addr |-> addr, bytes |-> bytes]>>]

\* the variant of an optional result: "none", "Ok", or the Error variant
Variant(r) ==
    IF r = <<>> THEN "none"
    ELSE IF r[1].ok THEN "Ok"
    ELSE r[1].e.err

(* ---------------- initial state ---------------- *)

Init ==
    /\ transport \in {<<[id |-> h, nwrites |-> 0, last |-> <<>>]>> : h \in Handles}
    /\ drv = <<>>
    /\ orig = <<>>
    /\ lastOp = [name |-> "init", cmd |-> 0]
    /\ lastOutcome = <<>>
    /\ lastRes = <<>>
    /\ prevRes = "none"
    /\ nOps = 0

(* ---------------- operations ---------------- *)

\* a constructor that probes the bus with a reset
New_probe ==
    /\ transport # <<>>
    /\ drv' = <<[i2c |-> I2cWrite(transport[1], GENERAL_CALL_ADDR, <<from("Reset")>>)]>>
    /\ transport' = <<>>
    /\ orig' = transport
    /\ lastOp' = [name |-> "new", cmd |-> 0]
    /\ lastOutcome' = <<>>
    /\ lastRes' = <<>>
    /\ prevRes' = Variant(lastRes)
    /\ UNCHANGED nOps

New ==
    /\ transport # <<>>
    /\ drv' = <<[i2c |-> transport[1]]>>
    /\ transport' = <<>>
    /\ orig' = transport
    /\ lastOp' = [name |-> "new", cmd |-> 0]
    /\ lastOutcome' = <<>>
    /\ lastRes' = <<>>
    /\ prevRes' = Variant(lastRes)
    /\ UNCHANGED nOps

Destroy ==
    /\ drv # <<>>
    /\ transport' = <<drv[1].i2c>>
    /\ drv' = <<>>
    /\ lastOp' = [name |-> "destroy", cmd |-> 0]
    /\ lastOutcome' = <<>>
    /\ lastRes' = <<>>
    /\ prevRes' = Variant(lastRes)
    /\ UNCHANGED <<orig, nOps>>

\* a driver that remembers a failure: once an operation failed, reset()
\* returns that error again without writing
Reset_sticky ==
    /\ drv # <<>>
    /\ nOps < MaxOps
    /\ IF Variant(lastRes) \in {"NoAckCall", "NoAckCmd", "I2C"}
       THEN /\ UNCHANGED <<drv, lastRes>>
            /\ lastOutcome' = <<>>
       ELSE \E res \in Outcomes :
            /\ drv' = <<[i2c |-> I2cWrite(drv[1].i2c, GENERAL_CALL_ADDR, <<from("Reset")>>)]>>
            /\ lastOutcome' = <<res>>
            /\ lastRes' = <<res_map(res)>>
    /\ lastOp' = [name |-> "reset", cmd |-> 0]
    /\ prevRes' = Variant(lastRes)
    /\ nOps' = nOps + 1
    /\ UNCHANGED <<transport, orig>>

Reset ==
    /\ drv # <<>>
    /\ nOps < MaxOps
    /\ \E res \in Outcomes :
        /\ drv' = <<[i2c |-> I2cWrite(drv[1].i2c, GENERAL_CALL_ADDR, <<from("Reset")>>)]>>
        /\ lastOutcome' = <<res>>
        /\ lastRes' = <<res_map(res)>>
    /\ lastOp' = [name |-> "reset", cmd |-> 0]
    /\ prevRes' = Variant(lastRes)
    /\ nOps' = nOps + 1
    /\ UNCHANGED <<transport, orig>>

\* a failed write attempted a second time
LatchAddr_retry ==
    /\ drv # <<>>
    /\ nOps < MaxOps
    /\ \E res \in Outcomes :
        /\ drv' = <<[i2c |-> IF res.ok
                             THEN I2cWrite(drv[1].i2c, GENERAL_CALL_ADDR, <<from("LatchAddr")>>)
                             ELSE I2cWrite(I2cWrite(drv[1].i2c, GENERAL_CALL_ADDR, <<from("LatchAddr")>>),
                                           GENERAL_CALL_ADDR, <<from("LatchAddr")>>)]>>
        /\ lastOutcome' = <<res>>
        /\ lastRes' = <<res_map(res)>>
    /\ lastOp' = [name |-> "latch_addr", cmd |-> 0]
    /\ prevRes' = Variant(lastRes)
    /\ nOps' = nOps + 1
    /\ UNCHANGED <<transport, orig>>

LatchAddr ==
    /\ drv # <<>>
    /\ nOps < MaxOps
    /\ \E res \in Outcomes :
        /\ drv' = <<[i2c |-> I2cWrite(drv[1].i2c, GENERAL_CALL_ADDR, <<from("LatchAddr")>>)]>>
        /\ lastOutcome' = <<res>>
        /\ lastRes' = <<res_map(res)>>
    /\ lastOp' = [name |-> "latch_addr", cmd |-> 0]
    /\ prevRes' = Variant(lastRes)
    /\ nOps' = nOps + 1
    /\ UNCHANGED <<transport, orig>>

\* the broadcast address sent as a payload byte as well
Call_two_bytes ==
    /\ drv # <<>>
    /\ nOps < MaxOps
    /\ \E cmd \in NonZeroU8, res \in Outcomes :
        /\ drv' = <<[i2c |-> I2cWrite(drv[1].i2c, cmd, <<GENERAL_CALL_ADDR, cmd>>)]>>
        /\ lastOutcome' = <<res>>
        /\ lastRes' = <<res_map(res)>>
        /\ lastOp' = [name |-> "call", cmd |-> cmd]
    /\ prevRes' = Variant(lastRes)
    /\ nOps' = nOps + 1
    /\ UNCHANGED <<transport, orig>>

Call ==
    /\ drv # <<>>
    /\ nOps < MaxOps
    /\ \E cmd \in NonZeroU8, res \in Outcomes :
        /\ drv' = <<[i2c |-> I2cWrite(drv[1].i2c, GENERAL_CALL_ADDR, <<cmd>>)]>>
        /\ lastOutcome' = <<res>>
        /\ lastRes' = <<res_map(res)>>
        /\ lastOp' = [name |-> "call", cmd |-> cmd]
    /\ prevRes' = Variant(lastRes)
    /\ nOps' = nOps + 1
    /\ UNCHANGED <<transport, orig>>

Next ==
    \/ New
    \/ Destroy
    \/ Reset
    \/ LatchAddr
    \/ Call

Spec == Init /\ [][Next]_vars

(* ---------------- vocabulary of the properties ---------------- *)

\* the transport, whoever holds it
Bus == IF drv # <<>> THEN drv[1].i2c ELSE transport[1]

\* the latest operation is one of the three that write
IsOp == lastOp.name \in {"reset", "latch_addr", "call"}

\* the latest step invoked one of the three operations
OpStep == nOps' = nOps + 1

Failures == {"NoAckCall", "NoAckCmd", "I2C"}

\* the transport's answer to the latest write was a fault of one of these kinds
FaultOfKind(kinds) ==
    /\ IsOp
    /\ ~ lastOutcome[1].ok
    /\ lastOutcome[1].e.kind \in kinds

\* the classification rule as the design states it
Classified(out) ==
    IF out.ok THEN [ok |-> TRUE]
    ELSE IF out.e.kind = "NoAcknowledge_Address" THEN [ok |-> FALSE, e |-> [err |-> "NoAckCall"]]
    ELSE IF out.e.kind = "NoAcknowledge_Data" THEN [ok |-> FALSE, e |-> [err |-> "NoAckCmd"]]
    ELSE [ok |-> FALSE, e |-> [err |-> "I2C", e |-> out.e]]

(* ---------------- properties ---------------- *)

\* C1: every write handed to the transport goes to address 0x00 and carries
\* exactly one byte, and each of the three operations hands one over.
C1_BroadcastOneByte ==
    /\ IsOp => Bus.last # <<>>
    /\ Bus.last # <<>> => /\ Bus.last[1].addr = 0
                          /\ Len(Bus.last[1].bytes) = 1

C1_Witness ==
    /\ nOps >= 2
    /\ lastOp = [name |-> "call", cmd |-> 255]
    /\ prevRes = "NoAckCall"
    /\ Bus.last = <<[addr |-> 0, bytes |-> <<255>>]>>

\* C2: the byte handed over is 0x06 for reset(), 0x04 for latch_addr() and b
\* for call(b), whatever happened before.
C2_CommandByte ==
    /\ lastOp.name = "reset" => Bus.last[1].bytes = <<6>>
    /\ lastOp.name = "latch_addr" => Bus.last[1].bytes = <<4>>
    /\ lastOp.name = "call" => Bus.last[1].bytes = <<lastOp.cmd>>

C2_Witness ==
    /\ lastOp.name = "latch_addr"
    /\ prevRes = "I2C"
    /\ nOps >= 2
    /\ Bus.last[1].bytes = <<4>>

\* C3: the transport is never handed a payload byte equal to 0x00, and call()
\* is never reached with a zero command.
C3_NoZeroByte ==
    /\ lastOp.name = "call" => lastOp.cmd # 0
    /\ Bus.last # <<>> =>
          \A i \in 1 .. Len(Bus.last[1].bytes) : Bus.last[1].bytes[i] # 0

C3_Witness ==
    /\ lastOp = [name |-> "call", cmd |-> 1]
    /\ Bus.last[1].bytes = <<1>>

\* C4: a write that fails for want of an acknowledgement of the address makes
\* the operation return NoAckCall.
C4_NoAckAddress ==
    FaultOfKind({"NoAcknowledge_Address"})
        => lastRes = <<[ok |-> FALSE, e |-> [err |-> "NoAckCall"]]>>

C4_Witness ==
    /\ FaultOfKind({"NoAcknowledge_Address"})
    /\ lastOp.name = "reset"
    /\ Variant(lastRes) = "NoAckCall"

\* C5: a write that fails for want of an acknowledgement of a data byte makes
\* the operation return NoAckCmd.
C5_NoAckData ==
    FaultOfKind({"NoAcknowledge_Data"})
        => lastRes = <<[ok |-> FALSE, e |-> [err |-> "NoAckCmd"]]>>

C5_Witness ==
    /\ FaultOfKind({"NoAcknowledge_Data"})
    /\ lastOp.name = "call"
    /\ Variant(lastRes) = "NoAckCmd"

\* C6: a write that fails with any other fault makes the operation return the
\* opaque variant carrying the very fault value the transport produced.
C6_OpaqueFault ==
    FaultOfKind(ErrorKind \ {"NoAcknowledge_Address", "NoAcknowledge_Data"})
        => lastRes = <<[ok |-> FALSE, e |-> [err |-> "I2C", e |-> lastOutcome[1].e]]>>

C6_Witness ==
    /\ FaultOfKind({"NoAcknowledge_Unknown"})
    /\ lastOutcome[1].e.tag = NumTags
    /\ lastOp.name = "latch_addr"
    /\ Variant(lastRes) = "I2C"
    /\ lastRes[1].e.e = [kind |-> "NoAcknowledge_Unknown", tag |-> NumTags]

\* C7: an operation returns success, and nothing with it, exactly when the
\* transport reported success for its write.
C7_SuccessIffTransportOk ==
    IsOp => /\ lastOutcome[1].ok => lastRes = <<[ok |-> TRUE]>>
            /\ lastRes[1].ok => lastOutcome = <<[ok |-> TRUE]>>

C7_Witness ==
    /\ IsOp
    /\ lastOp.name = "reset"
    /\ lastOutcome = <<[ok |-> TRUE]>>
    /\ lastRes = <<[ok |-> TRUE]>>
    /\ prevRes \in Failures

\* C8: destroy() right after new() gives back the transport that was handed
\* to new(), identity and state, and neither new() nor destroy() writes.
C8_RoundTrip ==
    /\ [](lastOp.name = "destroy" /\ prevRes = "none" => transport = orig)
    /\ [][lastOp'.name \in {"new", "destroy"} => Bus' = Bus]_vars

C8_Witness ==
    /\ lastOp.name = "destroy"
    /\ prevRes = "none"
    /\ transport = orig
    /\ orig[1].nwrites >= 1

\* C9: every invocation hands exactly one write to the transport, whether it
\* succeeds or fails, and reports the outcome; the transport has received as
\* many writes as operations were invoked.
C9_OneWritePerOp ==
    /\ [](Bus.nwrites = nOps)
    /\ [](IsOp => lastRes # <<>>)
    /\ [][OpStep => Bus'.nwrites = Bus.nwrites + 1]_vars

C9_Witness ==
    /\ nOps = 2
    /\ Bus.nwrites = 2
    /\ Variant(lastRes) \in Failures
    /\ prevRes \in Failures

\* C10: an operation that follows a failed one is still enabled, still hands
\* over its one write and has its outcome classified by the same rule; and
\* destroy() gives back the handle that was given to new().
C10_NoDriverState ==
    /\ [](drv # <<>> /\ nOps < MaxOps /\ Variant(lastRes) \in Failures
            => ENABLED Reset /\ ENABLED LatchAddr /\ ENABLED Call)
    /\ [][OpStep /\ Variant(lastRes) \in Failures
            => /\ Bus'.nwrites = Bus.nwrites + 1
               /\ lastOutcome' # <<>>
               /\ lastRes' = <<Classified(lastOutcome'[1])>>]_vars
    /\ [](lastOp.name = "destroy" => /\ transport[1].id = orig[1].id
                                     /\ transport[1].nwrites >= orig[1].nwrites)

C10_Witness ==
    /\ lastOp.name = "call"
    /\ prevRes = "NoAckCmd"
    /\ lastOutcome[1] = [ok |-> FALSE, e |-> [kind |-> "ArbitrationLoss", tag |-> 1]]
    /\ Variant(lastRes) = "I2C"
    /\ Bus.nwrites >= orig[1].nwrites + 2

====
